---- MODULE Spec2Model ----
(***************************************************************************)
(* Model of the directory-tree generator (src/main.go): the configuration  *)
(* parser parseStructureFromFile, the recursive materializer createDirs,   *)
(* the node counter countTotalDirectories and the summary counts computed  *)
(* by the confirm callback of the generate button.                         *)
(*                                                                         *)
(* Strings are sequences of tokens.  A token is one character, except for  *)
(* the tokens named below, each of which abbreviates a fixed run of        *)
(* characters that the program treats as a unit (a substring it counts, or *)
(* a run of ordinary characters that only matters for its length).         *)
(***************************************************************************)
EXTENDS Integers, Sequences, FiniteSets, TLC

(***************************************************************************)
(* Bounds of the explored inputs.                                          *)
(***************************************************************************)
MaxDepth == 2
MaxWidth == 2
MaxNodes == 3
MaxRuns  == 2
MaxLoads == 2

(***************************************************************************)
(* Text.                                                                   *)
(***************************************************************************)
Sep      == "/"
OkMark   == "OK_CREATED"   \* the substring counted as a success (main.go:359)
ErrMark  == "ERR:"         \* the first substring counted as a failure (main.go:360)
SkipMark == "SKIP:"        \* the second substring counted as a failure (main.go:360)
LongTok  == "L"            \* a run of 130 ordinary characters

Width(tok) ==
  IF tok = LongTok THEN 130
  ELSE IF tok \in {OkMark, ErrMark, SkipMark} THEN 3
  ELSE 1

RECURSIVE StrLen(_)
StrLen(s) == IF s = <<>> THEN 0 ELSE Width(Head(s)) + StrLen(Tail(s))

RECURSIVE Count(_, _)
Count(s, tok) ==
  IF s = <<>> THEN 0
  ELSE (IF Head(s) = tok THEN 1 ELSE 0) + Count(Tail(s), tok)

ContainsAny(s, chars) == \E i \in 1..Len(s) : s[i] \in chars

\* the reserved set with its first character left out
IllegalCharsLax == {">", ":", "\"", "|", "?", "*"}
IllegalChars == {"<", ">", ":", "\"", "|", "?", "*"}

PathLimit == 260

(***************************************************************************)
(* filepath.Join / filepath.Clean on slash-separated paths.                *)
(***************************************************************************)
Dot    == <<".">>
DotDot == <<".", ".">>

RECURSIVE SplitAcc(_, _, _)
SplitAcc(s, cur, acc) ==
  IF s = <<>> THEN Append(acc, cur)
  ELSE IF Head(s) = Sep THEN SplitAcc(Tail(s), <<>>, Append(acc, cur))
  ELSE SplitAcc(Tail(s), Append(cur, Head(s)), acc)

Split(s) == SplitAcc(s, <<>>, <<>>)

RECURSIVE CleanComps(_, _, _)
CleanComps(comps, rooted, acc) ==
  IF comps = <<>> THEN acc
  ELSE LET c == Head(comps)
           rest == Tail(comps)
       IN IF c = <<>> \/ c = Dot THEN CleanComps(rest, rooted, acc)
          ELSE IF c = DotDot
            THEN IF acc # <<>> /\ acc[Len(acc)] # DotDot
                   THEN CleanComps(rest, rooted, SubSeq(acc, 1, Len(acc) - 1))
                 ELSE IF rooted THEN CleanComps(rest, rooted, acc)
                 ELSE CleanComps(rest, rooted, Append(acc, c))
          ELSE CleanComps(rest, rooted, Append(acc, c))

RECURSIVE JoinComps(_)
JoinComps(comps) ==
  IF comps = <<>> THEN <<>>
  ELSE IF Len(comps) = 1 THEN comps[1]
  ELSE comps[1] \o <<Sep>> \o JoinComps(Tail(comps))

IsRooted(s) == s # <<>> /\ s[1] = Sep

Clean(s) ==
  IF s = <<>> THEN Dot
  ELSE LET body == JoinComps(CleanComps(Split(s), IsRooted(s), <<>>))
       IN IF IsRooted(s) THEN <<Sep>> \o body
          ELSE IF body = <<>> THEN Dot ELSE body

Join(base, name) ==
  IF base = <<>> /\ name = <<>> THEN <<>>
  ELSE IF base = <<>> THEN Clean(name)
  ELSE IF name = <<>> THEN Clean(base)
  ELSE Clean(base \o <<Sep>> \o name)

(***************************************************************************)
(* The filesystem.  dirs, files and links (dangling symbolic links) are    *)
(* sets of cleaned absolute paths; ro holds the directories without write  *)
(* permission, nox the directories without search permission.              *)
(***************************************************************************)
OK      == "OK"
ENOENT  == "ENOENT"
EACCES  == "EACCES"
ENOTDIR == "ENOTDIR"
EEXIST  == "EEXIST"

Comps(p) == CleanComps(Split(p), TRUE, <<>>)
PathOf(comps) == <<Sep>> \o JoinComps(comps)
Ancestor(p, k) == PathOf(SubSeq(Comps(p), 1, k))

\* the error of step k of the lookup of p (through the k-th ancestor)
StepErr(f, a) ==
  IF a \in f.files THEN ENOTDIR
  ELSE IF a \notin f.dirs THEN ENOENT
  ELSE IF a \in f.nox THEN EACCES
  ELSE OK

\* path resolution up to the parent of p
LookupErr(f, p) ==
  LET n == Len(Comps(p))
      bad == {k \in 0..(n - 1) : StepErr(f, Ancestor(p, k)) # OK}
  IN IF bad = {} THEN OK
     ELSE StepErr(f, Ancestor(p, CHOOSE k \in bad : \A j \in bad : k <= j))

Stat(f, p) ==
  LET q == PathOf(Comps(p))
      e == LookupErr(f, q)
  IN IF e # OK THEN [err |-> e, isDir |-> FALSE]
     ELSE IF q \in f.dirs THEN [err |-> OK, isDir |-> TRUE]
     ELSE IF q \in f.files THEN [err |-> OK, isDir |-> FALSE]
     ELSE [err |-> ENOENT, isDir |-> FALSE]

Lstat(f, p) ==
  LET q == PathOf(Comps(p))
      e == LookupErr(f, q)
  IN IF e # OK THEN [err |-> e, isDir |-> FALSE]
     ELSE IF q \in f.dirs THEN [err |-> OK, isDir |-> TRUE]
     ELSE IF q \in f.files \cup f.links THEN [err |-> OK, isDir |-> FALSE]
     ELSE [err |-> ENOENT, isDir |-> FALSE]

Mkdir(f, p) ==
  LET q == PathOf(Comps(p))
      n == Len(Comps(p))
      e == LookupErr(f, q)
  IN IF e # OK THEN [err |-> e, at |-> p, fs |-> f]
     ELSE IF q \in f.dirs \cup f.files \cup f.links
       THEN [err |-> EEXIST, at |-> p, fs |-> f]
     ELSE IF n = 0 \/ Ancestor(q, n - 1) \in f.ro
       THEN [err |-> EACCES, at |-> p, fs |-> f]
     ELSE [err |-> OK, at |-> p, fs |-> [f EXCEPT !.dirs = @ \cup {q}]]

IsNotExist(e)   == e = ENOENT
IsPermission(e) == e = EACCES
IsExist(e)      == e = EEXIST

\* the backward scan of os.MkdirAll: the position of the last separator
RECURSIVE LastSep(_, _)
LastSep(s, j) == IF j > 0 /\ s[j] # Sep THEN LastSep(s, j - 1) ELSE j

RECURSIVE MkdirAll(_, _)
MkdirAll(f, p) ==
  LET st == Stat(f, p)
  IN IF st.err = OK
       THEN IF st.isDir THEN [err |-> OK, at |-> p, fs |-> f]
            ELSE [err |-> ENOTDIR, at |-> p, fs |-> f]
     ELSE LET j == LastSep(p, Len(p))
              par == IF j > 1 THEN MkdirAll(f, SubSeq(p, 1, j - 1))
                     ELSE [err |-> OK, at |-> p, fs |-> f]
          IN IF par.err # OK THEN par
             ELSE LET mk == Mkdir(par.fs, p)
                  IN IF mk.err # OK
                       THEN IF Lstat(par.fs, p).err = OK /\ Lstat(par.fs, p).isDir
                              THEN [err |-> OK, at |-> p, fs |-> par.fs]
                            ELSE mk
                     ELSE mk

ErrText(r) == <<"mkdir">> \o r.at \o <<r.err>>

\* line 93: the target exists unless os.Stat reports that it does not
ExistsAlways(f, p) == TRUE
Exists(f, p) == ~IsNotExist(Stat(f, p).err)

(***************************************************************************)
(* The directory structure (map[string]interface{}): a set of nodes, each  *)
(* the sequence of keys leading to a value and the kind of that value.     *)
(* A node below the top level exists only under a node of kind "map".      *)
(***************************************************************************)
ScalarVals == {"num", "str", "bool", "list"}

IsPrefix(a, b) == Len(a) <= Len(b) /\ SubSeq(b, 1, Len(a)) = a
IsStrictPrefix(a, b) == Len(a) < Len(b) /\ SubSeq(b, 1, Len(a)) = a
Last(s) == s[Len(s)]
Parent(s) == SubSeq(s, 1, Len(s) - 1)

Keys(tree, at) == {Last(n.path) : n \in {m \in tree : Parent(m.path) = at}}
ValOf(tree, p) == (CHOOSE n \in tree : n.path = p).val

\* subDirs.(map[string]interface{}) with ok && subDirsMap != nil
IsSubDirsMap(v) == v = "map"

RECURSIVE CountKeys(_, _, _)
CountKeys(tree, at, keys) ==
  IF keys = {} THEN 0
  ELSE LET k == CHOOSE x \in keys : TRUE
           sub == IF IsSubDirsMap(ValOf(tree, Append(at, k)))
                    THEN CountKeys(tree, Append(at, k), Keys(tree, Append(at, k)))
                  ELSE 0
       IN 1 + sub + CountKeys(tree, at, keys \ {k})

countTotalDirectories(tree) == CountKeys(tree, <<>>, Keys(tree, <<>>))

(***************************************************************************)
(* Log lines.  text is the line that createDirs appends; kind, node, name  *)
(* and path record which statement appended it, for which key of the       *)
(* structure, and the name and path it was formatted with.                 *)
(***************************************************************************)
Entry(kind, node, name, path, text) ==
  [kind |-> kind, node |-> node, name |-> name, path |-> path, text |-> text]

EmptyRootPathEntry(at) ==
  Entry("EmptyRootPath", at, <<>>, <<>>, <<ErrMark, "empty target path">>)
RootMissingEntry(at, basePath) ==
  Entry("RootMissing", at, <<>>, basePath, <<"WARN:">> \o basePath)
RootCreateFailedEntry(at, basePath, r) ==
  Entry("RootCreateFailed", at, <<>>, basePath,
        <<ErrMark>> \o basePath \o <<"REASON:">> \o ErrText(r))
RootCreatedEntry(at, basePath) ==
  Entry("RootCreated", at, <<>>, basePath, <<"ROOT_OK:">> \o basePath)
SkippedEmptyNameEntry(node) ==
  Entry("SkippedEmptyName", node, <<>>, <<>>, <<SkipMark, "empty name">>)
PrefixAppliedEntry(node, dir, final) ==
  Entry("PrefixApplied", node, final, <<>>, <<"PREFIX:">> \o dir \o <<"->">> \o final)
SkippedIllegalCharsEntry(node, final) ==
  Entry("SkippedIllegalChars", node, final, <<>>, <<SkipMark, "illegal">> \o final)
SkippedPathTooLongEntry(node, final, fullPath) ==
  Entry("SkippedPathTooLong", node, final, fullPath, <<SkipMark, "too long">> \o fullPath)
PermissionDeniedEntry(node, final, fullPath) ==
  Entry("PermissionDenied", node, final, fullPath,
        <<"FAIL:">> \o fullPath \o <<"REASON:", "permission">>)
OtherErrorEntry(node, final, fullPath, r) ==
  Entry("OtherError", node, final, fullPath,
        <<"FAIL:">> \o fullPath \o <<"REASON:">> \o ErrText(r))
AlreadyExistsEntry(node, final, fullPath) ==
  Entry("AlreadyExists", node, final, fullPath, <<"EXISTS:">> \o fullPath)
CreatedEntry(node, final, fullPath) ==
  Entry("Created", node, final, fullPath, <<OkMark, ":">> \o fullPath)

(***************************************************************************)
(* createDirs.  The result is the set of the (logs, filesystem) pairs the  *)
(* call can return: one for each order in which the range loops can visit  *)
(* the keys of the maps.                                                   *)
(***************************************************************************)
\* the prefix applied whether or not the check box is ticked
FinalDirNameUnchecked(dir, enablePrefix, prefix) ==
  IF prefix # <<>> THEN prefix \o dir ELSE dir

FinalDirName(dir, enablePrefix, prefix) ==
  IF enablePrefix /\ prefix # <<>> THEN prefix \o dir ELSE dir

PrefixLogs(node, dir, enablePrefix, prefix) ==
  IF enablePrefix /\ prefix # <<>>
    THEN <<PrefixAppliedEntry(node, dir, FinalDirName(dir, enablePrefix, prefix))>>
  ELSE <<>>

\* the keys the loop still visits after a `continue` (after a `break`: none)
AfterBreak(rest) == {}
AfterContinue(rest) == rest

\* append(logs, createDirs(...)...) (the new lines put first instead)
PrependLogs(logs, more) == more \o logs
AppendLogs(logs, more) == logs \o more

RECURSIVE createDirs(_, _, _, _, _, _, _)
RECURSIVE RangeLoop(_, _, _, _, _, _, _, _, _)
RECURSIVE Iteration(_, _, _, _, _, _, _, _)

\* lines 140-142 and 155-157: the recursive call for the value of a key
SubDirsCall(fullPath, tree, node, enablePrefix, prefix, goos, f) ==
  IF IsSubDirsMap(ValOf(tree, node))
    THEN createDirs(fullPath, tree, node, enablePrefix, prefix, goos, f)
  ELSE {[logs |-> <<>>, fs |-> f]}

\* lines 130-157: the create attempt and what follows it
Attempt(fullPath, final, tree, node, enablePrefix, prefix, goos, f) ==
  LET r == MkdirAll(f, fullPath)
      sub == SubDirsCall(fullPath, tree, node, enablePrefix, prefix, goos, r.fs)
      line == IF r.err = OK THEN CreatedEntry(node, final, fullPath)
              ELSE IF IsPermission(r.err) THEN PermissionDeniedEntry(node, final, fullPath)
              ELSE IF IsExist(r.err) THEN AlreadyExistsEntry(node, final, fullPath)
              ELSE OtherErrorEntry(node, final, fullPath, r)
  IN {[logs |-> AppendLogs(<<line>>, s.logs), fs |-> s.fs] : s \in sub}

\* lines 103-157: one pass of the loop body, for the key dir
Iteration(basePath, tree, at, dir, enablePrefix, prefix, goos, f) ==
  LET node == Append(at, dir)
      final == FinalDirName(dir, enablePrefix, prefix)
      pre == PrefixLogs(node, dir, enablePrefix, prefix)
      fullPath == Join(basePath, final)
  IN IF dir = <<>>
       THEN {[logs |-> <<SkippedEmptyNameEntry(node)>>, fs |-> f, cont |-> TRUE]}
     ELSE IF ContainsAny(final, IllegalChars)
       THEN {[logs |-> Append(pre, SkippedIllegalCharsEntry(node, final)),
              fs |-> f, cont |-> TRUE]}
     ELSE IF goos = "windows" /\ StrLen(fullPath) > PathLimit
       THEN {[logs |-> Append(pre, SkippedPathTooLongEntry(node, final, fullPath)),
              fs |-> f, cont |-> TRUE]}
     ELSE {[logs |-> pre \o a.logs, fs |-> a.fs, cont |-> FALSE] :
             a \in Attempt(fullPath, final, tree, node, enablePrefix, prefix, goos, f)}

\* lines 102-159: the loop over the keys not yet visited
RangeLoop(basePath, tree, at, rest, logs, enablePrefix, prefix, goos, f) ==
  IF rest = {} THEN {[logs |-> logs, fs |-> f]}
  ELSE UNION { UNION {
         RangeLoop(basePath, tree, at,
                   IF b.cont THEN AfterContinue(rest \ {dir}) ELSE rest \ {dir},
                   AppendLogs(logs, b.logs), enablePrefix, prefix, goos, b.fs) :
           b \in Iteration(basePath, tree, at, dir, enablePrefix, prefix, goos, f) } :
         dir \in rest }

\* lines 83-160; at is the key sequence of the map passed as structure
createDirs(basePath, tree, at, enablePrefix, prefix, goos, f) ==
  IF basePath = <<>>
    THEN {[logs |-> <<EmptyRootPathEntry(at)>>, fs |-> f]}
  ELSE IF ~Exists(f, basePath)
    THEN LET r == MkdirAll(f, basePath)
         IN IF r.err # OK
              THEN {[logs |-> <<RootMissingEntry(at, basePath),
                                RootCreateFailedEntry(at, basePath, r)>>,
                     fs |-> r.fs]}
            ELSE RangeLoop(basePath, tree, at, Keys(tree, at),
                           <<RootMissingEntry(at, basePath),
                             RootCreatedEntry(at, basePath)>>,
                           enablePrefix, prefix, goos, r.fs)
  ELSE RangeLoop(basePath, tree, at, Keys(tree, at), <<>>,
                 enablePrefix, prefix, goos, f)

(***************************************************************************)
(* The summary of the confirm callback (lines 355-360).                    *)
(***************************************************************************)
RECURSIVE JoinLogs(_)
JoinLogs(logs) == IF logs = <<>> THEN <<>> ELSE Head(logs).text \o JoinLogs(Tail(logs))

SuccessCount(logs) == Count(JoinLogs(logs), OkMark)
ErrorCount(logs) == Count(JoinLogs(logs), ErrMark) + Count(JoinLogs(logs), SkipMark)

(***************************************************************************)
(* The inputs explored.                                                    *)
(***************************************************************************)
Names == { <<>>, <<"a">>, <<"b", "<">>, <<SkipMark, LongTok, LongTok>> }

\* the structures of depth at most d with at most n keys in all, their keys
\* drawn from names and the values that are not maps from leaves
RECURSIVE Forests(_, _, _, _)
Forests(d, n, names, leaves) ==
  IF d = 0 \/ n = 0 THEN {{}}
  ELSE LET sub == Forests(d - 1, n - 1, names, leaves) \ {{}}
           Choice == [val : leaves, kids : {{}}] \cup [val : {"map"}, kids : sub]
           KeySets == {K \in SUBSET names : Cardinality(K) <= MaxWidth /\ Cardinality(K) <= n}
           Build(K, g) ==
             UNION { {[path |-> <<k>>, val |-> g[k].val]} \cup
                     {[path |-> <<k>> \o m.path, val |-> m.val] : m \in g[k].kids} :
                     k \in K }
       IN {t \in UNION { {Build(K, g) : g \in [K -> Choice]} : K \in KeySets } :
             Cardinality(t) <= n}

\* a loaded structure is never empty (line 76)
Trees == Forests(MaxDepth, MaxNodes, Names, {"null"}) \ {{}}

Policies == { [enable |-> FALSE, prefix |-> <<"p">>],
              [enable |-> TRUE,  prefix |-> <<>>],
              [enable |-> TRUE,  prefix |-> <<"p">>],
              [enable |-> TRUE,  prefix |-> <<"<">>] }

Slash == <<Sep>>
Root  == <<Sep, "r">>
Obstacle == Join(Root, <<"a">>)

RootPaths == { <<>>, Root }

Perms == {"rwx", "r-x", "---"}

FsOf(dirs, files, links, ro, nox) ==
  [dirs |-> dirs, files |-> files, links |-> links, ro |-> ro, nox |-> nox]

\* the target folder is missing, under a root directory of each permission
FsRootMissing ==
  { FsOf({Slash}, {}, {},
         IF pm = "r-x" THEN {Slash} ELSE {},
         IF pm = "---" THEN {Slash} ELSE {}) : pm \in Perms }

\* the target folder is there and writable, and under it there is nothing,
\* a directory (writable or not), a regular file or a dangling link
FsRootWritable ==
  { FsOf({Slash, Root} \cup (IF ob \in {"dir", "dir r-x"} THEN {Obstacle} ELSE {}),
         IF ob = "file" THEN {Obstacle} ELSE {},
         IF ob = "link" THEN {Obstacle} ELSE {},
         IF ob = "dir r-x" THEN {Obstacle} ELSE {},
         {}) :
      ob \in {"none", "dir", "dir r-x", "file", "link"} }

\* the target folder is there, empty, without write or search permission
FsRootProtected ==
  { FsOf({Slash, Root}, {}, {},
         IF pm = "r-x" THEN {Root} ELSE {},
         IF pm = "---" THEN {Root} ELSE {}) : pm \in Perms \ {"rwx"} }

InitialFs == FsRootMissing \cup FsRootWritable \cup FsRootProtected

Platforms == {"linux", "windows"}

(***************************************************************************)
(* parseStructureFromFile (lines 40-81).  A configuration file is missing, *)
(* unreadable, or readable with an extension and a content; a content is   *)
(* no bytes at all, bytes the decoder cannot parse, or the text of a       *)
(* document.  A document is the kind of its top-level value and, when that *)
(* is a mapping, its keys and values as a structure.                       *)
(***************************************************************************)
DocNames == { <<"a">>, <<"b", "<">> }

Docs ==
  { [top |-> "map", nodes |-> t] :
      t \in Forests(MaxDepth, MaxNodes, DocNames, {"null"} \cup ScalarVals) }
  \cup { [top |-> k, nodes |-> {}] : k \in {"null"} \cup ScalarVals }

Exts == {".json", ".yaml", ".yml", ".txt"}

Contents == { [form |-> "empty", doc |-> [top |-> "null", nodes |-> {}]],
              [form |-> "malformed", doc |-> [top |-> "null", nodes |-> {}]] }
            \cup { [form |-> "document", doc |-> d] : d \in Docs }

Files ==
  { [state |-> "missing", ext |-> ".json", data |-> c] :
      c \in {x \in Contents : x.form = "empty"} }
  \cup { [state |-> "unreadable", ext |-> ".json", data |-> c] :
           c \in {x \in Contents : x.form = "empty"} }
  \cup { [state |-> "readable", ext |-> e, data |-> c] : e \in Exts, c \in Contents }

NoFile == [state |-> "missing", ext |-> ".json",
           data |-> [form |-> "empty", doc |-> [top |-> "null", nodes |-> {}]]]

\* json.Unmarshal / yaml.Unmarshal into a map[string]interface{}: a syntax
\* error, a type error for a top-level value that is neither a mapping nor
\* null, and otherwise the mapping with every nested value as decoded
Unmarshal(data) ==
  IF data.form = "malformed" THEN [err |-> "syntax", structure |-> {}]
  ELSE IF data.doc.top \in ScalarVals THEN [err |-> "type", structure |-> {}]
  ELSE [err |-> "none", structure |-> data.doc.nodes]

parseStructureFromFile(file) ==
  IF file.state = "missing" THEN [err |-> "FileMissing", structure |-> {}]
  ELSE IF file.state = "unreadable" THEN [err |-> "FileUnreadable", structure |-> {}]
  ELSE IF file.data.form = "empty" THEN [err |-> "EmptyFile", structure |-> {}]
  ELSE IF file.ext \notin {".json", ".yaml", ".yml"}
    THEN [err |-> "UnsupportedFormat", structure |-> {}]
  ELSE LET r == Unmarshal(file.data)
       IN IF r.err # "none" THEN [err |-> "DecodeError", structure |-> {}]
          ELSE IF r.structure = {} THEN [err |-> "EmptyStructure", structure |-> {}]
          ELSE [err |-> "none", structure |-> r.structure]

(***************************************************************************)
(* State.  A nil loadedDirStructure is the empty set of nodes.             *)
(***************************************************************************)
VARIABLES targetPath, loadedDirStructure, enablePrefix, prefix, goos, fs,
          logMessages, successCount, errorCount, runs, prevLogs, fsBefore,
          cfgFile, loadErr, loads, pending, lastLoad

vars == <<targetPath, loadedDirStructure, enablePrefix, prefix, goos, fs,
          logMessages, successCount, errorCount, runs, prevLogs, fsBefore,
          cfgFile, loadErr, loads, pending, lastLoad>>

runVars == <<logMessages, successCount, errorCount, runs, prevLogs, fsBefore>>
loadVars == <<cfgFile, loadErr, loads>>
guiVars == <<pending, lastLoad>>

\* no confirm dialog is open and no file has been picked yet
NoDialogYet ==
  /\ pending = FALSE
  /\ lastLoad = "none"

NoRunYet ==
  /\ logMessages = <<>>
  /\ successCount = 0
  /\ errorCount = 0
  /\ runs = 0
  /\ prevLogs = <<>>
  /\ fsBefore = fs

\* the runs of createDirs, from every structure, target, policy and filesystem
Init ==
  /\ targetPath \in RootPaths
  /\ loadedDirStructure \in Trees
  /\ \E pol \in Policies : enablePrefix = pol.enable /\ prefix = pol.prefix
  /\ goos \in Platforms
  /\ fs \in InitialFs
  /\ NoRunYet
  /\ cfgFile = NoFile
  /\ loadErr = "none"
  /\ loads = 0
  /\ NoDialogYet

\* lines 341-360: the confirmed run, createDirs and the two counts
Generate ==
  /\ runs < MaxRuns
  /\ \E out \in createDirs(targetPath, loadedDirStructure, <<>>,
                           enablePrefix, prefix, goos, fs) :
       /\ logMessages' = out.logs
       /\ fs' = out.fs
       /\ successCount' = SuccessCount(out.logs)
       /\ errorCount' = ErrorCount(out.logs)
  /\ runs' = runs + 1
  /\ prevLogs' = logMessages
  /\ fsBefore' = fs
  /\ UNCHANGED <<targetPath, loadedDirStructure, enablePrefix, prefix, goos>>
  /\ UNCHANGED loadVars
  /\ UNCHANGED guiVars

Next == Generate

Spec == Init /\ [][Next]_vars

\* the loads of a configuration file, from every file
InitParse ==
  /\ targetPath = <<>>
  /\ loadedDirStructure \in {{}, {[path |-> <<<<"a">>>>, val |-> "null"]}}
  /\ enablePrefix = FALSE
  /\ prefix = <<>>
  /\ goos = "linux"
  /\ fs = FsOf({Slash}, {}, {}, {}, {})
  /\ NoRunYet
  /\ cfgFile \in Files
  /\ loadErr = "none"
  /\ loads = 0
  /\ NoDialogYet

\* lines 272-290: the file picked in the dialog is parsed and, on success,
\* becomes the loaded structure; on failure the loaded structure is dropped
LoadConfig ==
  /\ loads = 0
  /\ LET r == parseStructureFromFile(cfgFile)
     IN /\ loadErr' = r.err
        /\ loadedDirStructure' = r.structure
  /\ loads' = loads + 1
  /\ UNCHANGED <<targetPath, enablePrefix, prefix, goos, fs, cfgFile>>
  /\ UNCHANGED runVars
  /\ UNCHANGED guiVars

NextParse == LoadConfig

SpecParse == InitParse /\ [][NextParse]_vars

(***************************************************************************)
(* The window (lines 162-409): the callbacks of the folder dialog, the     *)
(* prefix check box and entry, the file dialog, the generate button and    *)
(* its confirm dialog.  A dialog is modal: while the confirm dialog is     *)
(* open no other callback runs.                                            *)
(***************************************************************************)
GuiFolders == { Slash, Root }

GuiPrefixes == { <<>>, <<"p">> }

DocOf(nodes) == [form |-> "document", doc |-> [top |-> "map", nodes |-> nodes]]

GuiFiles ==
  { [state |-> "readable", ext |-> ".json",
     data |-> DocOf({[path |-> <<<<"a">>>>, val |-> "null"]})],
    [state |-> "readable", ext |-> ".yaml",
     data |-> DocOf({[path |-> <<<<"a">>>>, val |-> "map"],
                     [path |-> <<<<"a">>, <<"b", "<">>>>, val |-> "null"]})],
    [state |-> "readable", ext |-> ".json",
     data |-> [form |-> "malformed", doc |-> [top |-> "null", nodes |-> {}]]],
    [state |-> "readable", ext |-> ".txt",
     data |-> DocOf({[path |-> <<<<"a">>>>, val |-> "null"]})],
    [state |-> "readable", ext |-> ".json", data |-> DocOf({})],
    [state |-> "unreadable", ext |-> ".json",
     data |-> [form |-> "empty", doc |-> [top |-> "null", nodes |-> {}]]] }

\* what the file dialog hands to its callback: an error, nothing (the
\* user cancelled), a reader without a path, or a reader of a file
DialogResults == {"error", "cancelled", "no path", "file"}

GuiFs == FsOf({Slash, Root}, {}, {}, {Slash}, {})

InitGui ==
  /\ targetPath = <<>>
  /\ loadedDirStructure = {}
  /\ enablePrefix = FALSE
  /\ prefix = <<>>
  /\ goos \in Platforms
  /\ fs = GuiFs
  /\ NoRunYet
  /\ cfgFile = NoFile
  /\ loadErr = "none"
  /\ loads = 0
  /\ NoDialogYet

\* lines 219-224: os.WriteFile of the test file in the selected folder
WriteTestPasses(f, p) ==
  /\ Stat(f, p).err = OK
  /\ Stat(f, p).isDir
  /\ PathOf(Comps(p)) \notin f.ro \cup f.nox

\* lines 207-233: the callback of the folder dialog for a chosen folder
SelectFolder ==
  /\ ~pending
  /\ \E p \in GuiFolders :
       targetPath' = IF WriteTestPasses(fs, p) THEN p ELSE targetPath
  /\ UNCHANGED <<loadedDirStructure, enablePrefix, prefix, goos, fs>>
  /\ UNCHANGED <<runVars, loadVars, guiVars>>

\* lines 191-200: the check box
PrefixCheckChanged ==
  /\ ~pending
  /\ \E checked \in BOOLEAN :
       /\ enablePrefix' = checked
       /\ prefix' = IF checked THEN prefix ELSE <<>>
  /\ UNCHANGED <<targetPath, loadedDirStructure, goos, fs>>
  /\ UNCHANGED <<runVars, loadVars, guiVars>>

\* lines 203-205: the entry, enabled only while the box is checked
PrefixEntryChanged ==
  /\ ~pending
  /\ enablePrefix
  /\ \E text \in GuiPrefixes : prefix' = text
  /\ UNCHANGED <<targetPath, loadedDirStructure, enablePrefix, goos, fs>>
  /\ UNCHANGED <<runVars, loadVars, guiVars>>

\* lines 279-288: the structure kept after parseStructureFromFile returned r
StructureAfterParse(r, old) == IF r.err # "none" THEN {} ELSE r.structure

\* lines 260-296: the callback of the file dialog
LoadConfigCallback ==
  /\ ~pending
  /\ loads < MaxLoads
  /\ \E res \in DialogResults, file \in GuiFiles :
       IF res = "file"
         THEN LET r == parseStructureFromFile(file)
              IN /\ cfgFile' = file
                 /\ loadErr' = r.err
                 /\ loadedDirStructure' = StructureAfterParse(r, loadedDirStructure)
                 /\ lastLoad' = IF r.err = "none" THEN "ok" ELSE "failed"
       ELSE /\ UNCHANGED <<cfgFile, loadErr, loadedDirStructure>>
            /\ lastLoad' = IF res = "cancelled" THEN lastLoad ELSE "failed"
  /\ loads' = loads + 1
  /\ UNCHANGED <<targetPath, enablePrefix, prefix, goos, fs, pending>>
  /\ UNCHANGED runVars

\* lines 322-378: the generate button up to the confirm dialog
PressGenerate ==
  /\ ~pending
  /\ runs < MaxRuns
  /\ pending' = (targetPath # <<>> /\ loadedDirStructure # {})
  /\ UNCHANGED <<targetPath, loadedDirStructure, enablePrefix, prefix, goos, fs, lastLoad>>
  /\ UNCHANGED <<runVars, loadVars>>

\* lines 341-344: the confirm dialog is answered with "no"
CancelGenerate ==
  /\ pending
  /\ pending' = FALSE
  /\ UNCHANGED <<targetPath, loadedDirStructure, enablePrefix, prefix, goos, fs, lastLoad>>
  /\ UNCHANGED <<runVars, loadVars>>

\* lines 341-375: the confirm dialog is answered with "yes"
ConfirmGenerate ==
  /\ pending
  /\ pending' = FALSE
  /\ \E out \in createDirs(targetPath, loadedDirStructure, <<>>,
                           enablePrefix, prefix, goos, fs) :
       /\ logMessages' = out.logs
       /\ fs' = out.fs
       /\ successCount' = SuccessCount(out.logs)
       /\ errorCount' = ErrorCount(out.logs)
  /\ runs' = runs + 1
  /\ prevLogs' = logMessages
  /\ fsBefore' = fs
  /\ UNCHANGED <<targetPath, loadedDirStructure, enablePrefix, prefix, goos, lastLoad>>
  /\ UNCHANGED loadVars

NextGui ==
  \/ SelectFolder
  \/ PrefixCheckChanged
  \/ PrefixEntryChanged
  \/ LoadConfigCallback
  \/ PressGenerate
  \/ CancelGenerate
  \/ ConfirmGenerate

SpecGui == InitGui /\ [][NextGui]_vars

(***************************************************************************)
(* The runs of createDirs on structures whose keys hold a path separator   *)
(* or the parent component.                                                *)
(***************************************************************************)
TraversalNames == { <<"a">>, DotDot, <<"a", Sep, "a">>, <<".", ".", Sep, "a">> }

TraversalTrees == Forests(MaxDepth, MaxNodes, TraversalNames, {"null"}) \ {{}}

TraversalFs == { FsOf({Slash}, {}, {}, {}, {}), FsOf({Slash, Root}, {}, {}, {}, {}) }

InitTraversal ==
  /\ targetPath \in RootPaths
  /\ loadedDirStructure \in TraversalTrees
  /\ \E pol \in Policies : enablePrefix = pol.enable /\ prefix = pol.prefix
  /\ goos \in Platforms
  /\ fs \in TraversalFs
  /\ NoRunYet
  /\ cfgFile = NoFile
  /\ loadErr = "none"
  /\ loads = 0
  /\ NoDialogYet

SpecTraversal == InitTraversal /\ [][Next]_vars

(***************************************************************************)
(* Vocabulary of the properties.                                           *)
(***************************************************************************)
Done == runs >= 1
Log(i) == logMessages[i]
Idx == DOMAIN logMessages

AttemptKinds == {"Created", "AlreadyExists", "PermissionDenied", "OtherError"}
SkipKinds == {"SkippedEmptyName", "SkippedIllegalChars", "SkippedPathTooLong"}
FailureKinds == SkipKinds \cup {"PermissionDenied", "OtherError"}
OutcomeKinds == AttemptKinds \cup SkipKinds
RootKinds == {"EmptyRootPath", "RootMissing", "RootCreateFailed", "RootCreated"}

ReservedChars == {"<", ">", ":", "\"", "|", "?", "*"}

\* the final name and the full path the specification gives to a key
ExpectedName(node) ==
  IF enablePrefix /\ prefix # <<>> THEN prefix \o Last(node) ELSE Last(node)

RECURSIVE ExpectedPath(_)
ExpectedPath(node) ==
  IF node = <<>> THEN targetPath
  ELSE Join(ExpectedPath(Parent(node)), ExpectedName(node))

NewDirs == fs.dirs \ fsBefore.dirs

\* the loop over the keys of the map at `at` was entered
LevelRuns(at) ==
  /\ at = <<>> \/ \E i \in Idx : Log(i).node = at /\ Log(i).kind \in AttemptKinds
  /\ ~\E i \in Idx : Log(i).node = at /\ Log(i).kind \in {"EmptyRootPath", "RootCreateFailed"}

\* C1: of two runs in a row, the second logs no "created" line and logs
\* "already exists" for every key whose directory the first run created.
IdempotentRerun ==
  runs = 2 =>
    /\ \A i \in Idx : Log(i).kind # "Created"
    /\ \A i \in DOMAIN prevLogs :
         prevLogs[i].kind = "Created" =>
           \E j \in Idx : Log(j).kind = "AlreadyExists" /\ Log(j).node = prevLogs[i].node

\* C2: after a create attempt that fails with permission denied or another
\* I/O error, no line is logged (no attempt is made) for any descendant key.
NoDescentAfterFailure ==
  Done =>
    \A i \in Idx :
      Log(i).kind \in {"PermissionDenied", "OtherError"} =>
        \A j \in Idx : ~IsStrictPrefix(Log(i).node, Log(j).node)

\* C3: a key whose final name holds a reserved character gets one
\* skipped-illegal-characters line and no create attempt, no directory is
\* made for it, no line is logged for any key below it, and the other keys
\* of its map are processed exactly when it is.
IllegalSkipNoDescent ==
  Done =>
    \A n \in loadedDirStructure :
      (Last(n.path) # <<>> /\ ContainsAny(ExpectedName(n.path), ReservedChars)) =>
        LET own == {i \in Idx : Log(i).node = n.path}
            skips == {i \in own : Log(i).kind = "SkippedIllegalChars"}
        IN /\ \A i \in own : Log(i).kind \in {"PrefixApplied", "SkippedIllegalChars"}
           /\ Cardinality(skips) <= 1
           /\ LevelRuns(Parent(n.path)) => Cardinality(skips) = 1
           /\ \A j \in Idx : ~IsStrictPrefix(n.path, Log(j).node)
           /\ ExpectedPath(n.path) \notin NewDirs
           /\ \A m \in loadedDirStructure :
                Parent(m.path) = Parent(n.path) =>
                  ((\E i \in Idx : Log(i).node = m.path) <=> own # {})

IllegalSkipNoDescentWitness ==
  /\ Done
  /\ \E n \in loadedDirStructure, c \in loadedDirStructure, m \in loadedDirStructure :
       /\ ContainsAny(ExpectedName(n.path), ReservedChars)
       /\ Parent(c.path) = n.path
       /\ Parent(m.path) = Parent(n.path)
       /\ \E i \in Idx : Log(i).node = n.path /\ Log(i).kind = "SkippedIllegalChars"
       /\ \E i \in Idx : Log(i).node = m.path /\ Log(i).kind = "Created"

\* C4: the created count plus the skipped/failed count of a run is at most
\* countTotalDirectories of the structure.
SummaryConsistency ==
  Done => successCount + errorCount <= countTotalDirectories(loadedDirStructure)

\* C5: the skipped/failed count is the number of keys skipped or failed (one
\* for each skip, permission-denied or other-error line, and one for a fatal
\* root line), and the created count is the number of "created" lines.
FailuresAllCounted ==
  Done =>
    /\ errorCount = Cardinality({i \in Idx :
                       Log(i).kind \in FailureKinds \cup {"EmptyRootPath", "RootCreateFailed"}})
    /\ successCount = Cardinality({i \in Idx : Log(i).kind = "Created"})

\* C6: every line of a non-empty key is formatted with the final name
\* prefix + name when the prefix is enabled and non-empty, and with the name
\* itself otherwise, at every depth; that name decides the illegal-character
\* check and is the one joined to the path of the enclosing map.
PrefixUniformity ==
  Done =>
    \A i \in Idx :
      LET e == Log(i)
      IN /\ e.kind \in (OutcomeKinds \cup {"PrefixApplied"}) \ {"SkippedEmptyName"} =>
              e.name = ExpectedName(e.node)
         /\ e.kind \in AttemptKinds \cup {"SkippedPathTooLong"} =>
              /\ e.path = ExpectedPath(e.node)
              /\ ~ContainsAny(ExpectedName(e.node), ReservedChars)
         /\ e.kind = "SkippedIllegalChars" =>
              ContainsAny(ExpectedName(e.node), ReservedChars)
         /\ e.kind = "PrefixApplied" => enablePrefix /\ prefix # <<>>
         /\ (e.kind \in OutcomeKinds \ {"SkippedEmptyName"} /\ enablePrefix /\ prefix # <<>>) =>
              i > 1 /\ Log(i - 1).kind = "PrefixApplied" /\ Log(i - 1).node = e.node
         /\ e.kind \in RootKinds \ {"EmptyRootPath"} => e.path = ExpectedPath(e.node)

PrefixUniformityWitness ==
  /\ Done
  /\ enablePrefix
  /\ prefix = <<"p">>
  /\ \E i \in Idx :
       /\ Log(i).kind = "Created"
       /\ Len(Log(i).node) = 2
       /\ Log(i).name = <<"p", "a">>
       /\ Log(i).path = Root \o <<Sep, "p", SkipMark, LongTok, LongTok, Sep, "p", "a">>

\* C8: from a filesystem holding nothing but the root directory and possibly
\* the target folder, every order of visiting the keys gives the same set of
\* created directories and the same number of lines of each kind.
AllKinds == OutcomeKinds \cup RootKinds \cup {"PrefixApplied"}
KindCounts(logs) ==
  [k \in AllKinds |-> Cardinality({i \in DOMAIN logs : logs[i].kind = k})]
CreatedPaths(logs) == {logs[i].path : i \in {j \in DOMAIN logs : logs[j].kind = "Created"}}

EmptyStart(f) ==
  /\ f.dirs \subseteq {Slash, targetPath}
  /\ f.files = {} /\ f.links = {} /\ f.ro = {} /\ f.nox = {}

OrderIndependence ==
  (runs = 1 /\ EmptyStart(fsBefore)) =>
    \A o \in createDirs(targetPath, loadedDirStructure, <<>>,
                        enablePrefix, prefix, goos, fsBefore) :
      /\ KindCounts(o.logs) = KindCounts(logMessages)
      /\ CreatedPaths(o.logs) = CreatedPaths(logMessages)
      /\ o.fs.dirs = fs.dirs

OrderIndependenceWitness ==
  /\ runs = 1
  /\ EmptyStart(fsBefore)
  /\ Cardinality(Keys(loadedDirStructure, <<>>)) = 2
  /\ \E i \in Idx : Log(i).kind = "Created"
  /\ \E i \in Idx : Log(i).kind \in SkipKinds
  /\ \E o \in createDirs(targetPath, loadedDirStructure, <<>>,
                         enablePrefix, prefix, goos, fsBefore) :
       o.logs # logMessages

PreOrderLog ==
  Done =>
    \A n \in loadedDirStructure :
      LET InSub(i) == IsPrefix(n.path, Log(i).node)
      IN /\ \A i \in Idx, j \in Idx, k \in Idx :
              (i < j /\ j < k /\ InSub(i) /\ InSub(k)) => InSub(j)
         /\ \A j \in Idx :
              (InSub(j) /\ ~(Log(j).node = n.path /\ Log(j).kind \in OutcomeKinds \cup {"PrefixApplied"})) =>
                \E i \in Idx : i < j /\ Log(i).node = n.path /\ Log(i).kind \in OutcomeKinds

PreOrderLogWitness ==
  /\ Done
  /\ \E n \in loadedDirStructure, c \in loadedDirStructure, m \in loadedDirStructure :
       /\ Parent(c.path) = n.path
       /\ Parent(m.path) = Parent(n.path)
       /\ m # n
       /\ \E i \in Idx, j \in Idx, k \in Idx :
            /\ i < j /\ j < k
            /\ Log(i).node = n.path /\ Log(i).kind = "Created"
            /\ Log(j).node = c.path /\ Log(j).kind = "Created"
            /\ Log(k).node = m.path /\ Log(k).kind = "Created"

\* C7: a load of a file whose document holds, at any depth, a value that is
\* neither a mapping nor null fails with a decode error and leaves no
\* structure loaded.
HasScalar(doc) == doc.top \in ScalarVals \/ \E n \in doc.nodes : n.val \in ScalarVals

ScalarValuesRejected ==
  (/\ loads = 1
   /\ cfgFile.state = "readable"
   /\ cfgFile.ext \in {".json", ".yaml", ".yml"}
   /\ cfgFile.data.form = "document"
   /\ HasScalar(cfgFile.data.doc)) =>
     loadErr = "DecodeError" /\ loadedDirStructure = {}

\* C11: createDirs is invoked only with a target path selected and after a
\* most recent load that succeeded; once a load has failed, no structure
\* from before the failure is left to run.
RunOnlyAfterGoodLoad ==
  [][ /\ runs' # runs => (targetPath # <<>> /\ lastLoad = "ok")
      /\ lastLoad' = "failed" => loadedDirStructure' = {} ]_vars

\* C12: every directory a run creates, and every path it attempts to
\* create, is the target path or lies below it.
IsUnder(base, p) == IsPrefix(Comps(base), Comps(p))

ContainedUnderRoot ==
  Done =>
    /\ \A p \in NewDirs : IsUnder(targetPath, p)
    /\ \A i \in Idx : Log(i).kind \in AttemptKinds => IsUnder(targetPath, Log(i).path)

====
